---- MODULE Spec2Model ----
(***************************************************************************)
(* Model of the kompromiss integration: the MPC regulator                  *)
(* (regulator/mpc.py), the controller state (state.py) and the             *)
(* temperature controller (controller.py) running on a single-threaded,    *)
(* cooperative event loop.                                                 *)
(*                                                                         *)
(* Units.  Temperatures are fixed-point tenths of a degree (18.0 C = 180). *)
(* heat_curve_slope is kept in tenths (-0.7 = -7) and return setpoints in  *)
(* hundredths of a degree.  Thermal resistances are in 1e-4 K/W and        *)
(* capacities in 1e4 J/K, so that a product R*C is in seconds.  Powers are *)
(* in W, times in seconds.                                                 *)
(***************************************************************************)
EXTENDS Integers, Sequences, FiniteSets, TLC

VARIABLES heap, regulator, controller, task, running, clock, last_solve,
          fetch_left_empty

vars ==
    <<heap, regulator, controller, task, running, clock, last_solve,
      fetch_left_empty>>

(***************************************************************************)
(* Bounds of the model.                                                    *)
(***************************************************************************)
NumTasks == 2
MaxClock == 2

(***************************************************************************)
(* Program constants.                                                      *)
(***************************************************************************)
None == -9999
MINIMUM_SIMULATED_TEMPERATURE == -400
MAXIMUM_SIMULATED_TEMPERATURE == 190
DEFAULT_TARGET_TEMPERATURE == 210
DEFAULT_MINIMUM_INDOOR_TEMPERATURE == 195
DEFAULT_THERMAL_RESISTANCE == 50
DEFAULT_THERMAL_CAPACITANCE == 360
DEFAULT_MEDIUM_TO_BUILDING_THERMAL_RESISTANCE == 35
DEFAULT_MEDIUM_TO_OUTDOOR_THERMAL_RESISTANCE == 2000
DEFAULT_MEDIUM_THERMAL_CAPACITY == 25
DEFAULT_HEATER_THERMAL_POWER == 10000
DEFAULT_HEAT_CURVE_SLOPE == -7
DEFAULT_HEAT_CURVE_INTERCEPT == 350
DEFAULT_HEATER_TRANSFER_COEFFICIENT == 500
DEFAULT_MINIMUM_MEDIUM_RETURN_TEMPERATURE == 200
DEFAULT_MAXIMUM_MEDIUM_RETURN_TEMPERATURE == 650
DEFAULT_PREDICTION_HORIZON == 48
DEFAULT_TIME_STEP == 900
DEFAULT_OUTDOOR_RAMP_LIMIT == 40
DEFAULT_TEMPERATURE_DEVIATION_PENALTY == 100
DEFAULT_COMFORT_BAND_VIOLATION_PENALTY == 10000
DEFAULT_ENERGY_COST_PENALTY == 5
DEFAULT_SIMULATED_OUTDOOR_MOVE_PENALTY == 50
MINIMUM_PRICE_SECONDS == 28800
PRICE_INTERVAL == 900

(***************************************************************************)
(* Small input sets.                                                       *)
(***************************************************************************)
Tasks == 1..NumTasks
NoTask == 0
OutdoorValues == {-50}
IndoorValues == {180}
NoneStr == "None"
DirectCaller == 1
DirectPriceLengths == {0, 24, 32, 48}
DirectStates ==
    {[outdoor |-> o, indoor |-> i, medium |-> None, n |-> n] :
        o \in OutdoorValues, i \in IndoorValues, n \in DirectPriceLengths}
    \cup {d \in [outdoor : OutdoorValues \cup {None},
                 indoor : IndoorValues \cup {None},
                 medium : {None}, n : {0, 48}] :
              d.outdoor = None \/ d.indoor = None}
    \cup {[outdoor |-> -50, indoor |-> 180, medium |-> 300, n |-> 48],
          [outdoor |-> 300, indoor |-> 180, medium |-> None, n |-> 48]}
FetchedPriceLengths == {0, 32}
CtlObj == 1
RegObj == 2
ObjIds == {CtlObj, RegObj}

(***************************************************************************)
(* Arithmetic helpers: Python float division and min/max, in fixed point.  *)
(***************************************************************************)
Abs(x) == IF x < 0 THEN -x ELSE x

Min(a, b) == IF a <= b THEN a ELSE b

Max(a, b) == IF a >= b THEN a ELSE b

Quot(a, b) ==
    IF (a >= 0) = (b > 0) THEN Abs(a) \div Abs(b) ELSE -(Abs(a) \div Abs(b))

(***************************************************************************)
(* state.py: ControllerState.                                              *)
(***************************************************************************)
NoneList == [none |-> TRUE, items |-> <<>>]

EmptyList == [none |-> FALSE, items |-> <<>>]

ControllerState ==
    [actual_outdoor_temperature |-> None,
     indoor_temperature |-> None,
     medium_temperature |-> None,
     electricity_price |-> <<>>,
     simulated_outdoor_temperatures |-> NoneList,
     projected_indoor_temperature |-> NoneList,
     projected_medium_temperature |-> NoneList,
     projected_thermal_power |-> NoneList,
     outdoor_temperature_offsets |-> NoneList,
     computation_time |-> None]

is_valid_outdoor_only(s) == s.actual_outdoor_temperature # None

is_valid(s) ==
    s.actual_outdoor_temperature # None /\ s.indoor_temperature # None

Trajectories(s) ==
    <<s.simulated_outdoor_temperatures,
      s.projected_indoor_temperature,
      s.projected_medium_temperature,
      s.projected_thermal_power,
      s.outdoor_temperature_offsets>>

(***************************************************************************)
(* electricity.py: a fetched series of fixed-width price points.           *)
(***************************************************************************)
PriceSeries(n) == [i \in 1..n |-> [price |-> 10 + (i % 3)]]

(***************************************************************************)
(* mpc.py: MPCParameters with its class-level defaults.                    *)
(***************************************************************************)
MPCParameters ==
    [thermal_resistance |-> DEFAULT_THERMAL_RESISTANCE,
     thermal_capacitance |-> DEFAULT_THERMAL_CAPACITANCE,
     medium_to_room_resistance |-> DEFAULT_MEDIUM_TO_BUILDING_THERMAL_RESISTANCE,
     medium_to_outdoor_thermal_resistance |->
         DEFAULT_MEDIUM_TO_OUTDOOR_THERMAL_RESISTANCE,
     medium_thermal_capacity |-> DEFAULT_MEDIUM_THERMAL_CAPACITY,
     heater_thermal_power |-> DEFAULT_HEATER_THERMAL_POWER,
     heater_transfer_coefficient |-> DEFAULT_HEATER_TRANSFER_COEFFICIENT,
     minimum_medium_return_temperature |->
         DEFAULT_MINIMUM_MEDIUM_RETURN_TEMPERATURE,
     maximum_medium_return_temperature |->
         DEFAULT_MAXIMUM_MEDIUM_RETURN_TEMPERATURE,
     heat_curve_slope |-> DEFAULT_HEAT_CURVE_SLOPE,
     heat_curve_intercept |-> DEFAULT_HEAT_CURVE_INTERCEPT,
     target_temperature |-> DEFAULT_TARGET_TEMPERATURE,
     lower_temperature_bound |-> DEFAULT_MINIMUM_INDOOR_TEMPERATURE,
     prediction_horizon |-> DEFAULT_PREDICTION_HORIZON,
     time_step |-> DEFAULT_TIME_STEP,
     outdoor_ramp_limit |-> DEFAULT_OUTDOOR_RAMP_LIMIT,
     temperature_deviation_penalty |-> DEFAULT_TEMPERATURE_DEVIATION_PENALTY,
     comfort_band_violation_penalty |-> DEFAULT_COMFORT_BAND_VIOLATION_PENALTY,
     energy_cost_penalty |-> DEFAULT_ENERGY_COST_PENALTY,
     simulated_outdoor_move_penalty |-> DEFAULT_SIMULATED_OUTDOOR_MOVE_PENALTY]

(***************************************************************************)
(* mpc.py: MPCRegulator.update_parameters_from_options.  An options        *)
(* mapping is a function from option keys to values.  The assignments run  *)
(* in source order; ParametersFirstHalf is lines 151-189 and               *)
(* ParametersSecondHalf lines 191-210.  A key the code does not test for   *)
(* is never looked at.                                                     *)
(***************************************************************************)
Has(options, key) == key \in DOMAIN options

Assign(p, options, key, field) ==
    IF Has(options, key) THEN [p EXCEPT ![field] = options[key]] ELSE p

ParametersFirstHalf(p, options) ==
    LET p1 == Assign(p, options, "target_temperature", "target_temperature")
        p2 == Assign(p1, options, "minimum_indoor_temperature",
                     "lower_temperature_bound")
        p3 == Assign(p2, options, "r_thermal", "thermal_resistance")
        p4 == Assign(p3, options, "c_thermal", "thermal_capacitance")
        p5 == Assign(p4, options, "r_medium_to_room",
                     "medium_to_room_resistance")
        p6 == Assign(p5, options, "r_medium_to_environment",
                     "medium_to_outdoor_thermal_resistance")
        p7 == Assign(p6, options, "c_medium", "medium_thermal_capacity")
        p8 == Assign(p7, options, "heat_pump_thermal_power",
                     "heater_thermal_power")
        p9 == Assign(p8, options, "heat_pump_heat_transfer_coeff",
                     "heater_transfer_coefficient")
        p10 == Assign(p9, options, "return_temperature_min",
                      "minimum_medium_return_temperature")
        p11 == Assign(p10, options, "return_temperature_max",
                      "maximum_medium_return_temperature")
        p12 == Assign(p11, options, "heat_curve_slope", "heat_curve_slope")
    IN  Assign(p12, options, "heat_curve_intercept", "heat_curve_intercept")

ParametersSecondHalf(p, options) ==
    LET p1 == Assign(p, options, "time_step", "time_step")
        p2 == Assign(p1, options, "ramp_limit_outdoor", "outdoor_ramp_limit")
        p3 == Assign(p2, options, "temperature_deviation_penalty",
                     "temperature_deviation_penalty")
        p4 == Assign(p3, options, "comfort_band_violation_penalty",
                     "comfort_band_violation_penalty")
        p5 == Assign(p4, options, "energy_cost_penalty", "energy_cost_penalty")
    IN  Assign(p5, options, "simulated_outdoor_move_penalty",
               "simulated_outdoor_move_penalty")

TimeStepField(r, options) ==
    IF Has(options, "time_step") THEN options["time_step"] ELSE r.time_step

(***************************************************************************)
(* The option keys update_parameters_from_options tests for.               *)
(***************************************************************************)
KnownKeys ==
    {"target_temperature", "minimum_indoor_temperature", "r_thermal",
     "c_thermal", "r_medium_to_room", "r_medium_to_environment", "c_medium",
     "heat_pump_thermal_power", "heat_pump_heat_transfer_coeff",
     "return_temperature_min", "return_temperature_max", "heat_curve_slope",
     "heat_curve_intercept", "time_step", "ramp_limit_outdoor",
     "temperature_deviation_penalty", "comfort_band_violation_penalty",
     "energy_cost_penalty", "simulated_outdoor_move_penalty"}

(***************************************************************************)
(* mpc.py: MPCRegulator.async_regulate, the checks before the solve.       *)
(***************************************************************************)
EffectiveHorizonFull(s, p) == p.prediction_horizon

EffectiveHorizon(s, p) ==
    IF Len(s.electricity_price) < p.prediction_horizon
    THEN Len(s.electricity_price)
    ELSE p.prediction_horizon

PriceDataSufficient(s, p) ==
    \/ ~(Len(s.electricity_price) < p.prediction_horizon)
    \/ Len(s.electricity_price) * p.time_step >= MINIMUM_PRICE_SECONDS

RegulateErrorStateFirst(s, p) ==
    IF ~is_valid(s) THEN "InvalidState"
    ELSE IF p.heat_curve_slope = 0 THEN "ConfigError"
    ELSE IF ~PriceDataSufficient(s, p) THEN "InsufficientPriceData"
    ELSE "none"

RegulateError(s, p) ==
    IF p.heat_curve_slope = 0 THEN "ConfigError"
    ELSE IF ~is_valid(s) THEN "InvalidState"
    ELSE IF ~PriceDataSufficient(s, p) THEN "InsufficientPriceData"
    ELSE "none"

InitialMediumTemperature(s, p) ==
    Quot(p.heat_curve_slope * s.actual_outdoor_temperature, 10)
        + p.heat_curve_intercept

PreviousSimulatedOutdoorTemperature(s) ==
    IF ~s.simulated_outdoor_temperatures.none
       /\ Len(s.simulated_outdoor_temperatures.items) > 0
    THEN s.simulated_outdoor_temperatures.items[1].temperature
    ELSE s.actual_outdoor_temperature

(***************************************************************************)
(* mpc.py: the heat curve.  slope (tenths) times a temperature (tenths) is *)
(* a number of hundredths, so return setpoints are kept in hundredths of a *)
(* degree and the product is exact, as it is (within rounding far below    *)
(* the resolution of the model) in floating point.                         *)
(***************************************************************************)
SimulatedOutdoor(u, p) ==
    Quot(u - 10 * p.heat_curve_intercept, p.heat_curve_slope)

MediumSetpointRounded(x, p) ==
    10 * (Quot(p.heat_curve_slope * x, 10) + p.heat_curve_intercept)

MediumSetpoint(x, p) == p.heat_curve_slope * x + 10 * p.heat_curve_intercept

(***************************************************************************)
(* mpc.py: the actuator.  _heat_from_return_setpoint is the heat flow of   *)
(* the optimisation problem, HeatInput the one recomputed from the         *)
(* solution vector (lines 429-441).                                        *)
(***************************************************************************)
RawHeat(return_temp, medium_temp, p) ==
    Quot(p.heater_transfer_coefficient * (return_temp - 10 * medium_temp), 100)

HeatFromReturnSetpointUncapped(return_temp, medium_temp, p) ==
    Max(0, RawHeat(return_temp, medium_temp, p))

HeatFromReturnSetpoint(return_temp, medium_temp, p) ==
    Max(0, Min(p.heater_thermal_power, RawHeat(return_temp, medium_temp, p)))

HeatInput(return_temp, medium_temp, p) ==
    Min(p.heater_thermal_power, Max(0, RawHeat(return_temp, medium_temp, p)))

(***************************************************************************)
(* mpc.py: the thermal model of _solve (lines 308-333).                    *)
(***************************************************************************)
NextRoom(room, medium, outdoor, dt, p) ==
    room
    + Quot(dt * (outdoor - room), p.thermal_resistance * p.thermal_capacitance)
    + Quot(dt * (medium - room),
           p.medium_to_room_resistance * p.thermal_capacitance)

NextMedium(room, medium, outdoor, heat, dt, p) ==
    medium
    + Quot(dt * heat * 10, p.medium_thermal_capacity * 10000)
    - Quot(dt * (medium - room),
           p.medium_to_room_resistance * p.medium_thermal_capacity)
    - Quot(dt * (medium - outdoor),
           p.medium_to_outdoor_thermal_resistance * p.medium_thermal_capacity)

RECURSIVE Rollout(_, _, _, _, _, _, _)
Rollout(rooms, mediums, us, outdoor, dt, p, n) ==
    IF n = 0
    THEN [indoor_temperatures |-> rooms, medium_temperatures |-> mediums]
    ELSE LET room == rooms[Len(rooms)]
             medium == mediums[Len(mediums)]
             heat == HeatFromReturnSetpoint(us[Len(rooms)], medium, p)
         IN  Rollout(Append(rooms, NextRoom(room, medium, outdoor, dt, p)),
                     Append(mediums,
                            NextMedium(room, medium, outdoor, heat, dt, p)),
                     us, outdoor, dt, p, n - 1)

(***************************************************************************)
(* mpc.py: the comfort floor of _solve.  Each step has a slack variable    *)
(* bounded below by 0 and unbounded above (lines 373-374, 380-381); the    *)
(* constraint is room + slack - lower_temperature_bound >= 0 (lines        *)
(* 343-349).  SlackValues samples the range of the slack variable.         *)
(***************************************************************************)
SlackValues(room, p) ==
    {x \in {0, p.lower_temperature_bound - room} : x >= 0}

ComfortFloorHard(room, slack, p) == room - p.lower_temperature_bound >= 0

ComfortFloor(room, slack, p) == room + slack - p.lower_temperature_bound >= 0

Feasible(sol, p, horizon) ==
    \A k \in 1..horizon :
        \E slack \in SlackValues(sol.indoor_temperatures[k], p) :
            ComfortFloor(sol.indoor_temperatures[k], slack, p)

(***************************************************************************)
(* The points the solver can return when it converges: a sample of the     *)
(* feasible set of the problem built in _solve.  The first simulated       *)
(* outdoor temperature moves by a multiple of the ramp limit from the      *)
(* reference and is held, the setpoint stays inside its box bounds, and    *)
(* the room and medium temperatures follow the dynamics.                   *)
(***************************************************************************)
SolverMoves == {-1, 0}

RampConstraint(u, prev, p) ==
    Abs(u - MediumSetpoint(prev, p))
        <= Abs(p.heat_curve_slope) * p.outdoor_ramp_limit

SetpointBounds(p) ==
    (10 * p.minimum_medium_return_temperature)
        ..(10 * p.maximum_medium_return_temperature)

SolverSetpoints(prev, p) ==
    {u \in {MediumSetpoint(prev + m * p.outdoor_ramp_limit, p) :
                m \in SolverMoves}
            \cup {10 * p.minimum_medium_return_temperature,
                  10 * p.maximum_medium_return_temperature} :
        /\ u \in SetpointBounds(p)
        /\ RampConstraint(u, prev, p)}

Held(u, horizon) == [k \in 1..horizon |-> u]

NoSolution ==
    [return_setpoints |-> <<>>, indoor_temperatures |-> <<>>,
     medium_temperatures |-> <<>>, thermal_power |-> <<>>]

HeatInputs(us, mediums, p, horizon) ==
    [k \in 1..horizon |-> HeatInput(us[k], mediums[k], p)]

Solve(s, p, dt, room0, medium0, horizon, us) ==
    LET r == Rollout(<<room0>>, <<medium0>>, us, s.actual_outdoor_temperature,
                     dt, p, horizon)
    IN  [return_setpoints |-> us,
         indoor_temperatures |-> r.indoor_temperatures,
         medium_temperatures |-> r.medium_temperatures,
         thermal_power |->
             HeatInputs(us, r.medium_temperatures, p, horizon)]

(***************************************************************************)
(* mpc.py: the energy term of the objective of _solve (lines 258-287).     *)
(* Step k reads electricity_price[k]; a read past the end of the list is   *)
(* Python's IndexError.  Prices are per kWh and heat flows in W: the term  *)
(* is kept in thousandths of the price unit.                               *)
(***************************************************************************)
IndexError == None

StepPrice(s, step) ==
    IF step < Len(s.electricity_price)
    THEN s.electricity_price[step + 1].price
    ELSE IndexError

EnergyCost(heat_flow, price) == Quot(heat_flow * price, 4)

NoObjective == [price |-> <<>>, energy_cost |-> <<>>]

Objective(s, p, sol, horizon) ==
    [price |-> [k \in 1..horizon |-> StepPrice(s, k - 1)],
     energy_cost |->
         [k \in 1..horizon |->
             p.energy_cost_penalty
                 * EnergyCost(HeatFromReturnSetpoint(sol.return_setpoints[k],
                                                     sol.medium_temperatures[k],
                                                     p),
                              StepPrice(s, k - 1))]]

ReadsPastEnd(s, horizon) ==
    \E k \in 1..horizon : StepPrice(s, k - 1) = IndexError

(***************************************************************************)
(* The solver call itself (mpc.py:395-427).  nlpsol is created without     *)
(* error_on_fail, so when IPOPT stops at max_iter = 200 or reports the     *)
(* problem infeasible the call returns its last iterate like a solution,   *)
(* and _solve never reads the solver's return status.  Such an iterate     *)
(* respects the bounds of the decision variables but not the constraints;  *)
(* IterateSetpoints is one such point, with the room and medium            *)
(* temperatures still at the initial guess (lines 397-408).                *)
(***************************************************************************)
Converged == "Solve_Succeeded"

NotConverged == {"Maximum_Iterations_Exceeded", "Infeasible_Problem_Detected"}

IterateSetpoints(p, horizon) ==
    [k \in 1..horizon |->
        IF k = 1 THEN 10 * p.minimum_medium_return_temperature
                 ELSE 10 * p.maximum_medium_return_temperature]

Iterate(p, room0, medium0, horizon) ==
    LET mediums == [k \in 1..(horizon + 1) |-> medium0]
    IN  [return_setpoints |-> IterateSetpoints(p, horizon),
         indoor_temperatures |-> [k \in 1..(horizon + 1) |-> room0],
         medium_temperatures |-> mediums,
         thermal_power |->
             HeatInputs(IterateSetpoints(p, horizon), mediums, p, horizon)]

(***************************************************************************)
(* mpc.py: async_regulate after the solve (lines 519-570).                 *)
(***************************************************************************)
ClearTrajectoriesKept(s) == s

ClearTrajectories(s) ==
    [s EXCEPT !.projected_indoor_temperature = EmptyList,
              !.projected_thermal_power = EmptyList,
              !.projected_medium_temperature = EmptyList,
              !.simulated_outdoor_temperatures = EmptyList,
              !.outdoor_temperature_offsets = EmptyList]

ClampUpperOnly(x) == Min(x, MAXIMUM_SIMULATED_TEMPERATURE)

Clamp(x) ==
    Max(MINIMUM_SIMULATED_TEMPERATURE, Min(x, MAXIMUM_SIMULATED_TEMPERATURE))

Entry(now, i, p, value) ==
    [start_time |-> now + i * p.time_step,
     end_time |-> now + (i + 1) * p.time_step,
     temperature |-> value]

Extend(list, entries) ==
    [none |-> FALSE, items |-> list.items \o entries]

FillTrajectories(s, p, sol, horizon, now) ==
    LET sim(i) == Clamp(SimulatedOutdoor(sol.return_setpoints[i + 1], p))
        entries(f(_)) == [k \in 1..horizon |-> Entry(now, k - 1, p, f(k - 1))]
        indoor(i) == sol.indoor_temperatures[i + 1]
        power(i) == sol.thermal_power[i + 1]
        medium(i) == sol.medium_temperatures[i + 1]
        offset(i) == sim(i) - s.actual_outdoor_temperature
    IN  [s EXCEPT
            !.projected_indoor_temperature = Extend(@, entries(indoor)),
            !.projected_thermal_power = Extend(@, entries(power)),
            !.projected_medium_temperature = Extend(@, entries(medium)),
            !.simulated_outdoor_temperatures = Extend(@, entries(sim)),
            !.outdoor_temperature_offsets = Extend(@, entries(offset))]

(***************************************************************************)
(* Option mappings used as inputs.  DirectOptions are handed to the        *)
(* regulator by a direct caller, ControllerOptions to the controller by    *)
(* the options flow.                                                       *)
(***************************************************************************)
NoOptions == [k \in {} |-> 0]

DirectOptions ==
    {[time_step |-> 1200, prediction_horizon |-> 32,
      heater_thermal_power |-> 5000],
     [heat_curve_slope |-> 0, bogus_key |-> 1],
     [heat_curve_slope |-> -3, heat_curve_intercept |-> 300,
      minimum_indoor_temperature |-> 400, heat_pump_thermal_power |-> 1000]}

ControllerOptions ==
    {[electricity_price_enabled |-> TRUE, electricity_price_area |-> "SE3",
      electricity_price_currency |-> "SEK", heat_curve_slope |-> -5,
      time_step |-> 1200],
     [electricity_price_enabled |-> TRUE],
     [electricity_price_enabled |-> FALSE]}

(***************************************************************************)
(* Call frames.  A task is one run of a coroutine of the event loop: a     *)
(* sensor-event handler ("hsc"), an options update ("upo") or a direct     *)
(* call of the regulator API ("direct").  entry is the regulator's view    *)
(* of its state and parameters when async_regulate was entered, objective  *)
(* the prices and energy terms of the objective the solve built, and       *)
(* fetched records that the coroutine called the price fetch.              *)
(***************************************************************************)
NoEntry == [state |-> ControllerState, parameters |-> MPCParameters, time_step |-> 0]

IdleFrame ==
    [pc |-> "idle", kind |-> "none", ret |-> "none", options |-> NoOptions,
     update_price_data |-> FALSE, horizon |-> 0, solution |-> NoSolution,
     error |-> "none", entry |-> NoEntry, now |-> 0, status |-> "none",
     reference |-> None, fetched |-> FALSE, objective |-> NoObjective]

(***************************************************************************)
(* Event loop.  A coroutine keeps the loop until it reaches an await that  *)
(* really suspends; the only such await is the price fetch                 *)
(* (controller.py:152).  async_regulate and _solve contain no await.       *)
(***************************************************************************)
SuspendsMidUpdate(pc) == pc \in {"fetch_wait", "par_second"}

SuspendsBeforeFill(pc) == pc \in {"fetch_wait", "reg_fill"}

SuspendsInSolve(pc) == pc \in {"fetch_wait", "reg_solve"}

Suspends(pc) == pc = "fetch_wait"

CanRun(t) ==
    \/ running = t
    \/ running = NoTask /\ Suspends(task[t].pc)

Sched(t, pc) == IF pc = "idle" \/ Suspends(pc) THEN NoTask ELSE t

Goto(t, frame) ==
    /\ task' = [task EXCEPT ![t] = frame]
    /\ running' = Sched(t, frame.pc)

At(t, pc) == task[t].pc = pc /\ CanRun(t)

RegState == heap[regulator.state]

CtlState == heap[controller.state]

EnterRegulate(f) ==
    [f EXCEPT !.pc = "reg_check",
              !.entry = [state |-> RegState,
                         parameters |-> regulator.parameters,
                         time_step |-> regulator.time_step]]

(***************************************************************************)
(* The order of the steps of async_regulate: the checks, the call of       *)
(* _solve, the reset of the five trajectory lists, the loop that fills     *)
(* them, and the computation time.                                         *)
(***************************************************************************)
RegulateNextClearFirst(pc) ==
    CASE pc = "reg_check" -> "reg_clear"
      [] pc = "reg_clear" -> "reg_solve"
      [] pc = "reg_solve" -> "reg_fill"
      [] pc = "reg_fill" -> "reg_done"
      [] pc = "reg_done" -> "reg_ret"

RegulateNext(pc) ==
    CASE pc = "reg_check" -> "reg_solve"
      [] pc = "reg_solve" -> "reg_clear"
      [] pc = "reg_clear" -> "reg_fill"
      [] pc = "reg_fill" -> "reg_done"
      [] pc = "reg_done" -> "reg_ret"

RegulatePcs ==
    {"reg_check", "reg_solve", "reg_clear", "reg_fill", "reg_done", "reg_ret",
     "reg_raise"}

EnterUpdate(f) ==
    [f EXCEPT !.pc = "par_first",
              !.entry = [state |-> RegState,
                         parameters |-> regulator.parameters,
                         time_step |-> regulator.time_step]]

Init ==
    /\ heap = [o \in ObjIds |-> ControllerState]
    /\ regulator = [state |-> RegObj, parameters |-> MPCParameters,
                    time_step |-> MPCParameters.time_step]
    /\ controller = [state |-> CtlObj, price_control_enabled |-> FALSE,
                     price_area |-> NoneStr, price_currency |-> NoneStr,
                     price_last_updated_at |-> None]
    /\ task = [t \in Tasks |-> IdleFrame]
    /\ running = NoTask
    /\ clock = 0
    /\ last_solve = None
    /\ fetch_left_empty = FALSE

(***************************************************************************)
(* MPCRegulator.async_regulate, step by step.  last_solve is a history     *)
(* variable, not a field of the program: the step-0 simulated outdoor      *)
(* temperature stored by the most recent call that succeeded.              *)
(***************************************************************************)
FirstSimulated(s) ==
    IF Len(s.simulated_outdoor_temperatures.items) > 0
    THEN s.simulated_outdoor_temperatures.items[1].temperature
    ELSE None

RegCheck(t) ==
    /\ At(t, "reg_check")
    /\ LET e == RegulateError(RegState, regulator.parameters)
       IN  IF e # "none"
           THEN Goto(t, [task[t] EXCEPT !.pc = "reg_raise", !.error = e])
           ELSE Goto(t, [task[t] EXCEPT
                    !.pc = RegulateNext("reg_check"),
                    !.horizon = EffectiveHorizon(RegState, regulator.parameters)])
    /\ UNCHANGED <<heap, regulator, controller, clock, last_solve,
                   fetch_left_empty>>

SolverReturns(t, status, sol, prev) ==
    Goto(t, [task[t] EXCEPT !.pc = RegulateNext("reg_solve"),
                            !.solution = sol,
                            !.status = status,
                            !.reference = prev,
                            !.objective =
                                Objective(RegState, regulator.parameters, sol,
                                          task[t].horizon)])

RegSolve(t) ==
    /\ At(t, "reg_solve")
    /\ LET s == RegState
           p == regulator.parameters
           prev == PreviousSimulatedOutdoorTemperature(s)
           room0 == s.indoor_temperature
           medium0 == InitialMediumTemperature(s, p)
           horizon == task[t].horizon
       IN  \/ Goto(t, [task[t] EXCEPT
                          !.pc = "reg_raise",
                          !.error = IF ReadsPastEnd(s, horizon)
                                    THEN "IndexError" ELSE "SolverError",
                          !.reference = prev])
           \/ /\ ~ReadsPastEnd(s, horizon)
              /\ \E u \in SolverSetpoints(prev, p) :
                     LET sol == Solve(s, p, regulator.time_step, room0,
                                      medium0, horizon, Held(u, horizon))
                     IN  /\ Feasible(sol, p, horizon)
                         /\ SolverReturns(t, Converged, sol, prev)
           \/ /\ ~ReadsPastEnd(s, horizon)
              /\ \E status \in NotConverged :
                     SolverReturns(t, status,
                                   Iterate(p, room0, medium0, horizon), prev)
    /\ UNCHANGED <<heap, regulator, controller, clock, last_solve,
                   fetch_left_empty>>

RegClear(t) ==
    /\ At(t, "reg_clear")
    /\ heap' = [heap EXCEPT ![regulator.state] = ClearTrajectories(@)]
    /\ clock' = clock + 1
    /\ Goto(t, [task[t] EXCEPT !.pc = RegulateNext("reg_clear"), !.now = clock])
    /\ UNCHANGED <<regulator, controller, last_solve, fetch_left_empty>>

RegFill(t) ==
    /\ At(t, "reg_fill")
    /\ heap' = [heap EXCEPT ![regulator.state] =
                   FillTrajectories(@, regulator.parameters, task[t].solution,
                                    task[t].horizon, task[t].now)]
    /\ Goto(t, [task[t] EXCEPT !.pc = RegulateNext("reg_fill")])
    /\ UNCHANGED <<regulator, controller, clock, last_solve, fetch_left_empty>>

RegDone(t) ==
    /\ At(t, "reg_done")
    /\ heap' = [heap EXCEPT ![regulator.state].computation_time = 1]
    /\ last_solve' = FirstSimulated(RegState)
    /\ Goto(t, [task[t] EXCEPT !.pc = RegulateNext("reg_done")])
    /\ UNCHANGED <<regulator, controller, clock, fetch_left_empty>>

RegReturn(t) ==
    /\ At(t, "reg_ret")
    /\ IF task[t].kind = "direct"
       THEN Goto(t, IdleFrame)
       ELSE Goto(t, [task[t] EXCEPT !.pc = "r_getstate",
                                    !.solution = NoSolution,
                                    !.entry = NoEntry, !.horizon = 0,
                                    !.now = 0, !.status = "none",
                                    !.reference = None,
                                    !.objective = NoObjective])
    /\ UNCHANGED <<heap, regulator, controller, clock, last_solve,
                   fetch_left_empty>>

RegRaise(t) ==
    /\ At(t, "reg_raise")
    /\ Goto(t, IdleFrame)
    /\ UNCHANGED <<heap, regulator, controller, clock, last_solve,
                   fetch_left_empty>>

(***************************************************************************)
(* MPCRegulator.update_parameters_from_options, in two steps.              *)
(***************************************************************************)
ParFirst(t) ==
    /\ At(t, "par_first")
    /\ regulator' = [regulator EXCEPT
           !.parameters = ParametersFirstHalf(@, task[t].options)]
    /\ Goto(t, [task[t] EXCEPT !.pc = "par_second"])
    /\ UNCHANGED <<heap, controller, clock, last_solve, fetch_left_empty>>

ParSecond(t) ==
    /\ At(t, "par_second")
    /\ regulator' = [regulator EXCEPT
           !.parameters = ParametersSecondHalf(@, task[t].options),
           !.time_step = TimeStepField(regulator, task[t].options)]
    /\ Goto(t, [task[t] EXCEPT !.pc = "par_ret"])
    /\ UNCHANGED <<heap, controller, clock, last_solve, fetch_left_empty>>

ParReturn(t) ==
    /\ At(t, "par_ret")
    /\ IF task[t].kind = "direct"
       THEN Goto(t, IdleFrame)
       ELSE Goto(t, [IdleFrame EXCEPT !.pc = "r_valid", !.kind = "upo",
                                      !.fetched = task[t].fetched])
    /\ UNCHANGED <<heap, regulator, controller, clock, last_solve,
                   fetch_left_empty>>

(***************************************************************************)
(* A direct caller of the regulator API: it fills in a ControllerState and  *)
(* hands it over with set_state, updates parameters, and regulates.  The   *)
(* ControllerState is the one it handed over before, or (fresh) a newly    *)
(* constructed one that takes the place of the one it drops.               *)
(***************************************************************************)
Idle == running = NoTask /\ \A t \in Tasks : task[t].pc = "idle"

DirectSetState(d, fresh) ==
    /\ Idle
    /\ heap' = [heap EXCEPT ![CtlObj] =
                   [(IF fresh THEN ControllerState ELSE @) EXCEPT
                             !.actual_outdoor_temperature = d.outdoor,
                             !.indoor_temperature = d.indoor,
                             !.medium_temperature = d.medium,
                             !.electricity_price = PriceSeries(d.n)]]
    /\ regulator' = [regulator EXCEPT !.state = CtlObj]
    /\ UNCHANGED <<controller, task, running, clock, last_solve,
                   fetch_left_empty>>

DirectUpdateParameters(options) ==
    /\ Idle
    /\ Goto(DirectCaller, EnterUpdate([IdleFrame EXCEPT !.kind = "direct",
                                                        !.options = options]))
    /\ UNCHANGED <<heap, regulator, controller, clock, last_solve,
                   fetch_left_empty>>

DirectRegulate ==
    /\ Idle
    /\ clock < MaxClock
    /\ Goto(DirectCaller, EnterRegulate([IdleFrame EXCEPT !.kind = "direct"]))
    /\ UNCHANGED <<heap, regulator, controller, clock, last_solve,
                   fetch_left_empty>>

RegulatorSteps ==
    \E t \in Tasks :
        \/ RegCheck(t)
        \/ RegSolve(t)
        \/ RegClear(t)
        \/ RegFill(t)
        \/ RegDone(t)
        \/ RegReturn(t)
        \/ RegRaise(t)
        \/ ParFirst(t)
        \/ ParSecond(t)
        \/ ParReturn(t)

Next ==
    \/ \E d \in DirectStates, fresh \in BOOLEAN : DirectSetState(d, fresh)
    \/ \E options \in DirectOptions : DirectUpdateParameters(options)
    \/ DirectRegulate
    \/ RegulatorSteps

Spec == Init /\ [][Next]_vars

(***************************************************************************)
(* controller.py: TemperatureController.update_parameters_from_options,    *)
(* lines 173-202: the price-control flag, area and currency.  The result   *)
(* says what the controller holds afterwards, whether the forward prices   *)
(* are reset, whether prices are to be fetched and whether ValueError is   *)
(* raised.                                                                 *)
(***************************************************************************)
OptGet(options, key, default) ==
    IF Has(options, key) THEN options[key] ELSE default

Blank(str) == str = NoneStr \/ str = "" \/ str = " "

OptionsFlags(c, options) ==
    LET enabled == OptGet(options, "electricity_price_enabled",
                          c.price_control_enabled)
        fetch == enabled # c.price_control_enabled /\ enabled
        c1 == [c EXCEPT !.price_control_enabled = enabled]
        area == OptGet(options, "electricity_price_area", c.price_area)
        c2 == [c1 EXCEPT !.price_area = area]
        currency == OptGet(options, "electricity_price_currency",
                           c.price_currency)
        c3 == [c2 EXCEPT !.price_currency = currency]
    IN  IF ~enabled
        THEN [controller |-> [c1 EXCEPT !.price_area = NoneStr,
                                        !.price_currency = NoneStr],
              clear_prices |-> TRUE, update_price_data |-> fetch,
              raises |-> FALSE]
        ELSE IF Blank(area)
        THEN [controller |-> c1, clear_prices |-> FALSE,
              update_price_data |-> fetch, raises |-> TRUE]
        ELSE IF Blank(currency)
        THEN [controller |-> c2, clear_prices |-> FALSE,
              update_price_data |-> fetch, raises |-> TRUE]
        ELSE [controller |-> c3, clear_prices |-> FALSE,
              update_price_data |-> fetch, raises |-> FALSE]

NoPrices(s) == Len(s.electricity_price) = 0

(***************************************************************************)
(* controller.py: TemperatureController._handle_state_change.              *)
(***************************************************************************)
StartHandleStateChange(t, entity, value) ==
    /\ running = NoTask
    /\ task[t].pc = "idle"
    /\ clock < MaxClock
    /\ heap' = [heap EXCEPT ![controller.state] =
                   IF entity = "outdoor"
                   THEN [@ EXCEPT !.actual_outdoor_temperature = value]
                   ELSE [@ EXCEPT !.indoor_temperature = value]]
    /\ Goto(t, [IdleFrame EXCEPT !.pc = "hsc_price", !.kind = "hsc"])
    /\ UNCHANGED <<regulator, controller, clock, last_solve, fetch_left_empty>>

HscPrice(t) ==
    /\ At(t, "hsc_price")
    /\ IF controller.price_control_enabled /\ NoPrices(CtlState)
       THEN Goto(t, [task[t] EXCEPT !.pc = "upd_begin", !.ret = "hsc_check"])
       ELSE Goto(t, [task[t] EXCEPT !.pc = "hsc_check"])
    /\ UNCHANGED <<heap, regulator, controller, clock, last_solve,
                   fetch_left_empty>>

HscCheck(t) ==
    /\ At(t, "hsc_check")
    /\ IF controller.price_control_enabled /\ NoPrices(CtlState)
       THEN /\ Goto(t, IdleFrame)
            /\ UNCHANGED regulator
       ELSE /\ regulator' = [regulator EXCEPT !.state = controller.state]
            /\ Goto(t, [task[t] EXCEPT !.pc = "r_valid"])
    /\ UNCHANGED <<heap, controller, clock, last_solve, fetch_left_empty>>

(***************************************************************************)
(* controller.py: TemperatureController._regulate.                         *)
(***************************************************************************)
RValid(t) ==
    /\ At(t, "r_valid")
    /\ IF ~is_valid(CtlState)
       THEN Goto(t, IdleFrame)
       ELSE \E elapsed \in BOOLEAN :
                IF controller.price_last_updated_at = None \/ elapsed
                THEN Goto(t, [task[t] EXCEPT !.pc = "upd_begin",
                                             !.ret = "r_setstate"])
                ELSE Goto(t, EnterRegulate(task[t]))
    /\ UNCHANGED <<heap, regulator, controller, clock, last_solve,
                   fetch_left_empty>>

RSetState(t) ==
    /\ At(t, "r_setstate")
    /\ regulator' = [regulator EXCEPT !.state = controller.state]
    /\ Goto(t, [EnterRegulate(task[t]) EXCEPT
                   !.entry.state = heap[controller.state]])
    /\ UNCHANGED <<heap, controller, clock, last_solve, fetch_left_empty>>

RGetState(t) ==
    /\ At(t, "r_getstate")
    /\ controller' = [controller EXCEPT !.state = regulator.state]
    /\ Goto(t, [task[t] EXCEPT !.pc = "r_notify"])
    /\ UNCHANGED <<heap, regulator, clock, last_solve, fetch_left_empty>>

RNotify(t) ==
    /\ At(t, "r_notify")
    /\ Goto(t, IdleFrame)
    /\ UNCHANGED <<heap, regulator, controller, clock, last_solve,
                   fetch_left_empty>>

(***************************************************************************)
(* controller.py: TemperatureController._update_price_data.  The fetch     *)
(* either raises before it suspends (no Nordpool entry) or suspends in the *)
(* service call and later returns a list of points or raises.              *)
(* fetch_left_empty is a history variable: the last fetch that ended left  *)
(* the price series empty.                                                 *)
(***************************************************************************)
UpdBegin(t) ==
    /\ At(t, "upd_begin")
    /\ IF ~controller.price_control_enabled
       THEN /\ Goto(t, [task[t] EXCEPT !.pc = task[t].ret, !.ret = "none"])
            /\ UNCHANGED <<heap, fetch_left_empty>>
       ELSE \/ /\ heap' = [heap EXCEPT
                               ![controller.state].electricity_price = <<>>]
               /\ fetch_left_empty' = TRUE
               /\ Goto(t, [task[t] EXCEPT !.pc = task[t].ret, !.ret = "none",
                                          !.fetched = TRUE])
            \/ /\ Goto(t, [task[t] EXCEPT !.pc = "fetch_wait",
                                          !.fetched = TRUE])
               /\ UNCHANGED <<heap, fetch_left_empty>>
    /\ UNCHANGED <<regulator, controller, clock, last_solve>>

FetchReturn(t) ==
    /\ At(t, "fetch_wait")
    /\ \/ /\ heap' = [heap EXCEPT ![controller.state].electricity_price = <<>>]
          /\ fetch_left_empty' = TRUE
          /\ UNCHANGED controller
       \/ \E n \in FetchedPriceLengths :
              /\ heap' = [heap EXCEPT ![controller.state].electricity_price =
                                          PriceSeries(n)]
              /\ fetch_left_empty' = (n = 0)
              /\ controller' = [controller EXCEPT !.price_last_updated_at = clock]
    /\ task' = [task EXCEPT ![t] = [@ EXCEPT !.pc = task[t].ret, !.ret = "none"]]
    /\ running' = t
    /\ UNCHANGED <<regulator, clock, last_solve>>

(***************************************************************************)
(* controller.py: TemperatureController.update_parameters_from_options.    *)
(***************************************************************************)
StartUpdateOptions(t, options) ==
    /\ running = NoTask
    /\ task[t].pc = "idle"
    /\ clock < MaxClock
    /\ LET r == OptionsFlags(controller, options)
       IN  /\ controller' = r.controller
           /\ heap' = IF r.clear_prices
                      THEN [heap EXCEPT ![controller.state].electricity_price = <<>>]
                      ELSE heap
           /\ fetch_left_empty' = IF r.clear_prices THEN FALSE
                                                    ELSE fetch_left_empty
           /\ IF r.raises
              THEN Goto(t, [IdleFrame EXCEPT !.pc = "upo_raise", !.kind = "upo"])
              ELSE Goto(t, [IdleFrame EXCEPT
                               !.pc = "upo_price", !.kind = "upo",
                               !.options = options,
                               !.update_price_data = r.update_price_data])
    /\ UNCHANGED <<regulator, clock, last_solve>>

UpoRaise(t) ==
    /\ At(t, "upo_raise")
    /\ Goto(t, IdleFrame)
    /\ UNCHANGED <<heap, regulator, controller, clock, last_solve,
                   fetch_left_empty>>

UpoPrice(t) ==
    /\ At(t, "upo_price")
    /\ IF controller.price_control_enabled /\ task[t].update_price_data
       THEN Goto(t, [task[t] EXCEPT !.pc = "upd_begin", !.ret = "upo_setstate"])
       ELSE Goto(t, EnterUpdate(task[t]))
    /\ UNCHANGED <<heap, regulator, controller, clock, last_solve,
                   fetch_left_empty>>

UpoSetState(t) ==
    /\ At(t, "upo_setstate")
    /\ regulator' = [regulator EXCEPT !.state = controller.state]
    /\ Goto(t, [EnterUpdate(task[t]) EXCEPT
                   !.entry.state = heap[controller.state]])
    /\ UNCHANGED <<heap, controller, clock, last_solve, fetch_left_empty>>

ControllerSteps ==
    \E t \in Tasks :
        \/ HscPrice(t)
        \/ HscCheck(t)
        \/ RValid(t)
        \/ RSetState(t)
        \/ RGetState(t)
        \/ RNotify(t)
        \/ UpdBegin(t)
        \/ FetchReturn(t)
        \/ UpoRaise(t)
        \/ UpoPrice(t)
        \/ UpoSetState(t)

NextCtl ==
    \/ \E t \in Tasks, entity \in {"outdoor", "indoor"},
          value \in OutdoorValues \cup IndoorValues \cup {None} :
              /\ value \in OutdoorValues => entity = "outdoor"
              /\ value \in IndoorValues => entity = "indoor"
              /\ StartHandleStateChange(t, entity, value)
    \/ \E t \in Tasks, options \in ControllerOptions :
              StartUpdateOptions(t, options)
    \/ ControllerSteps
    \/ RegulatorSteps

SpecCtl == Init /\ [][NextCtl]_vars

(***************************************************************************)
(* Properties of the regulator API (specification Spec).                   *)
(* A call of async_regulate has ended with an error when its frame is at   *)
(* "reg_raise" and has succeeded when it is at "reg_ret"; entry is what    *)
(* the regulator held when the call began.                                 *)
(***************************************************************************)
MissingTemperature(s) ==
    s.actual_outdoor_temperature = None \/ s.indoor_temperature = None

Entered(t) == task[t].pc \in RegulatePcs \ {"reg_check"}

Ended(t) == task[t].pc \in {"reg_raise", "reg_ret"}

Failed(t, e) == task[t].pc = "reg_raise" /\ task[t].error = e

TrajectoriesKept(t) == Trajectories(RegState) = Trajectories(task[t].entry.state)

HasTrajectory(s) ==
    ~s.simulated_outdoor_temperatures.none
    /\ Len(s.simulated_outdoor_temperatures.items) > 0

EntrySlope(t) == task[t].entry.parameters.heat_curve_slope

EntryPoints(t) == Len(task[t].entry.state.electricity_price)

EntryCoverage(t) == EntryPoints(t) * PRICE_INTERVAL

(* C1, as stated: a call made while a temperature is missing ends with the
   InvalidState error, never reaches the solver and leaves the five
   trajectory fields as they were. *)
C1_InvalidStateAlways ==
    \A t \in Tasks :
        (Entered(t) /\ MissingTemperature(task[t].entry.state)) =>
            /\ Failed(t, "InvalidState")
            /\ task[t].solution = NoSolution
            /\ TrajectoriesKept(t)

(* C1, amended: a call made while a temperature is missing and with a
   non-zero heat curve slope ends with the InvalidState error; with or
   without that slope it never reaches the solver and it leaves the five
   trajectory fields as they were. *)
C1_InvalidState ==
    \A t \in Tasks :
        (Entered(t) /\ MissingTemperature(task[t].entry.state)) =>
            /\ task[t].pc = "reg_raise"
            /\ EntrySlope(t) # 0 => task[t].error = "InvalidState"
            /\ task[t].solution = NoSolution
            /\ TrajectoriesKept(t)

C1_Witness ==
    \E t \in Tasks :
        /\ Failed(t, "InvalidState")
        /\ task[t].entry.state.indoor_temperature = None
        /\ task[t].entry.state.actual_outdoor_temperature # None
        /\ HasTrajectory(task[t].entry.state)

(* C2: whenever async_regulate ends with an error, whatever the error, the
   five trajectory fields hold the values they held when the call began. *)
C2_FailureKeepsTrajectories ==
    \A t \in Tasks : task[t].pc = "reg_raise" => TrajectoriesKept(t)

C2_Witness ==
    \E t \in Tasks :
        /\ Failed(t, "SolverError")
        /\ HasTrajectory(task[t].entry.state)
        /\ HasTrajectory(RegState)

(* C3: with an empty price series (price control disabled), a call on a
   valid state with a non-zero slope and a solver that returns succeeds and
   stores prediction_horizon entries. *)
C3_NoPricesSucceeds ==
    \A t \in Tasks :
        (/\ Ended(t)
         /\ ~MissingTemperature(task[t].entry.state)
         /\ EntrySlope(t) # 0
         /\ EntryPoints(t) = 0
         /\ task[t].error # "SolverError") =>
            /\ task[t].pc = "reg_ret"
            /\ Len(RegState.simulated_outdoor_temperatures.items)
                   = task[t].entry.parameters.prediction_horizon

(* C4: with a price series whose coverage in seconds reaches the minimum,
   the horizon of the solve is prediction_horizon when the coverage reaches
   prediction_horizon * time_step, and floor(coverage / time_step)
   otherwise. *)
ClaimedHorizon(t) ==
    LET p == task[t].entry.parameters
    IN  IF EntryCoverage(t) >= p.prediction_horizon * p.time_step
        THEN p.prediction_horizon
        ELSE EntryCoverage(t) \div p.time_step

C4_HorizonFromCoverage ==
    \A t \in Tasks :
        (/\ Entered(t)
         /\ ~MissingTemperature(task[t].entry.state)
         /\ EntrySlope(t) # 0
         /\ EntryPoints(t) > 0
         /\ EntryCoverage(t) >= MINIMUM_PRICE_SECONDS) =>
            /\ task[t].error # "InsufficientPriceData"
            /\ task[t].pc # "reg_raise" => task[t].horizon = ClaimedHorizon(t)

(* C5: with a price series whose coverage in seconds is below the minimum,
   a call on a valid state with a non-zero slope ends with the
   InsufficientPriceData error and the trajectory fields are as before. *)
C5_ShortCoverageFails ==
    \A t \in Tasks :
        (/\ Entered(t)
         /\ ~MissingTemperature(task[t].entry.state)
         /\ EntrySlope(t) # 0
         /\ EntryPoints(t) > 0
         /\ EntryCoverage(t) < MINIMUM_PRICE_SECONDS) =>
            /\ Failed(t, "InsufficientPriceData")
            /\ TrajectoriesKept(t)

(* C6: a call made with heat_curve_slope = 0 ends with the configuration
   error, also when the state is invalid or the prices are insufficient;
   the solver is not reached and the ControllerState is unchanged. *)
C6_ZeroSlopeFirst ==
    \A t \in Tasks :
        (Entered(t) /\ EntrySlope(t) = 0) =>
            /\ Failed(t, "ConfigError")
            /\ task[t].solution = NoSolution
            /\ RegState = task[t].entry.state

C6_Witness ==
    \E t \in Tasks :
        /\ Failed(t, "ConfigError")
        /\ MissingTemperature(task[t].entry.state)
        /\ EntryPoints(t) = 0

(* C7: update_parameters_from_options called with a mapping that holds a
   key outside the known parameter keys ends with a configuration error and
   changes no parameter. *)
C7_UnknownKeyRejected ==
    \A t \in Tasks :
        (/\ task[t].pc = "par_ret"
         /\ ~(DOMAIN task[t].options \subseteq KnownKeys)) =>
            /\ task[t].error = "ConfigError"
            /\ regulator.parameters = task[t].entry.parameters

(***************************************************************************)
(* Properties of the controller on the event loop (specification SpecCtl). *)
(***************************************************************************)
InFlight(t) == task[t].pc \in RegulatePcs

(* C8: a call of async_regulate in flight sees one set of parameters from
   its first step to its last: the parameters are those of its entry, the
   two copies of time_step agree, and no update of the parameters is half
   applied. *)
C8_ParametersNotTorn ==
    \A t \in Tasks :
        InFlight(t) =>
            /\ regulator.parameters = task[t].entry.parameters
            /\ regulator.time_step = task[t].entry.time_step
            /\ regulator.time_step = regulator.parameters.time_step
            /\ \A u \in Tasks : task[u].pc # "par_second"

C8_Witness ==
    \E t, u \in Tasks :
        /\ task[t].pc = "reg_fill"
        /\ regulator.parameters.heat_curve_slope = -5
        /\ regulator.time_step = 1200
        /\ task[u].kind = "upo"
        /\ task[u].pc = "fetch_wait"

(* C9: at every point where the event loop can run another party, and when
   the subscribers are called, the five trajectory fields are all unset, or
   all hold the same positive number of entries with the same time stamps. *)
SameSolve(s) ==
    \A f \in 1..5 :
        /\ ~Trajectories(s)[f].none
        /\ Len(Trajectories(s)[f].items) = Len(Trajectories(s)[1].items)
        /\ Len(Trajectories(s)[f].items) > 0
        /\ \A i \in 1..Len(Trajectories(s)[f].items) :
               /\ Trajectories(s)[f].items[i].start_time
                      = Trajectories(s)[1].items[i].start_time
               /\ Trajectories(s)[f].items[i].end_time
                      = Trajectories(s)[1].items[i].end_time

Consistent(s) ==
    \/ \A f \in 1..5 : Trajectories(s)[f] = NoneList
    \/ SameSolve(s)

ReaderCanObserve ==
    \/ running = NoTask
    \/ \E t \in Tasks : running = t /\ task[t].pc = "r_notify"

C9_NoTornTrajectory ==
    ReaderCanObserve => Consistent(CtlState) /\ Consistent(RegState)

C9_Witness ==
    \E t, u \in Tasks :
        /\ task[t].pc = "r_notify"
        /\ task[u].pc = "fetch_wait"
        /\ clock = 2
        /\ SameSolve(CtlState)

(* C10: at most one call of async_regulate is in flight at any time. *)
C10_OneSolveInFlight == Cardinality({t \in Tasks : InFlight(t)}) <= 1

C10_Witness ==
    \E t, u \in Tasks :
        /\ task[t].pc = "reg_solve"
        /\ task[u].pc = "fetch_wait"
        /\ task[u].kind = "hsc"

(***************************************************************************)
(* Properties of the solve and of the stored trajectories (specification   *)
(* Spec, except C12).  status is the return status of IPOPT, which the     *)
(* program never reads; reference is the ramp reference passed to _solve.  *)
(***************************************************************************)
Solved(t) == task[t].pc \in {"reg_clear", "reg_fill", "reg_done", "reg_ret"}

Stored(t) == task[t].pc \in {"reg_done", "reg_ret"}

StoredSimulated == RegState.simulated_outdoor_temperatures.items

(* C11: a call whose solver stopped at its iteration cap or reported the
   problem infeasible ends with the solver error, and its iterate is not
   stored: the trajectory fields stay as they were when the call began. *)
C11_NonConvergedRejected ==
    \A t \in Tasks :
        task[t].status \in NotConverged =>
            /\ Failed(t, "SolverError")
            /\ TrajectoriesKept(t)

(* C12: the ControllerState the controller holds is a snapshot: in a step
   that rebinds neither reference (no set_state, no get_state), the object
   the controller holds and the state the regulator uses never change
   together, so a write by the controller leaves the regulator's state
   alone and a step of async_regulate leaves the controller's copy alone. *)
C12_SnapshotIsolated ==
    [][(/\ controller'.state = controller.state
        /\ regulator'.state = regulator.state)
           => (CtlState' = CtlState \/ RegState' = RegState)]_vars

(* C13: a set_state between two calls of async_regulate keeps the five
   trajectory fields of the regulator's state: outside a call of
   async_regulate the trajectories of the regulator's state never change. *)
C13_SetStateKeepsTrajectories ==
    [][Idle => Trajectories(RegState)' = Trajectories(RegState)]_vars

(* C14: every stored entry of simulated_outdoor_temperatures lies in
   [MINIMUM_SIMULATED_TEMPERATURE, MAXIMUM_SIMULATED_TEMPERATURE], whatever
   the solver returned and whatever the slope and intercept are. *)
C14_SimulatedWithinRange ==
    \A i \in 1..Len(StoredSimulated) :
        /\ MINIMUM_SIMULATED_TEMPERATURE <= StoredSimulated[i].temperature
        /\ StoredSimulated[i].temperature <= MAXIMUM_SIMULATED_TEMPERATURE

C14_Witness ==
    \E t \in Tasks :
        /\ task[t].pc = "reg_ret"
        /\ \E k \in 1..task[t].horizon :
               /\ SimulatedOutdoor(task[t].solution.return_setpoints[k],
                                   task[t].entry.parameters)
                      > MAXIMUM_SIMULATED_TEMPERATURE
               /\ StoredSimulated[k].temperature = MAXIMUM_SIMULATED_TEMPERATURE
        /\ \E k \in 1..task[t].horizon :
               /\ SimulatedOutdoor(task[t].solution.return_setpoints[k],
                                   task[t].entry.parameters)
                      < MINIMUM_SIMULATED_TEMPERATURE
               /\ StoredSimulated[k].temperature = MINIMUM_SIMULATED_TEMPERATURE

(* C15: in every stored trajectory the simulated outdoor temperatures of
   consecutive steps differ by at most outdoor_ramp_limit, and the one of
   step 0 differs by at most outdoor_ramp_limit from the step-0 value of
   the previous successful solve.  (last_solve is updated by the last step
   of the call, so at "reg_done" it still is the previous solve.) *)
C15_RampRespected ==
    \A t \in Tasks :
        task[t].pc = "reg_done" =>
            LET limit == task[t].entry.parameters.outdoor_ramp_limit
            IN  /\ \A k \in 2..Len(StoredSimulated) :
                       Abs(StoredSimulated[k].temperature
                               - StoredSimulated[k - 1].temperature) <= limit
                /\ last_solve # None =>
                       Abs(StoredSimulated[1].temperature - last_solve) <= limit

(* C16: the comfort floor never makes the problem infeasible: when the
   solver is called, every trajectory that satisfies the dynamics, the ramp
   constraint and the setpoint bounds admits, at each step, a slack >= 0
   with room + slack >= lower_temperature_bound. *)
C16_ComfortFloorSoft ==
    \A t \in Tasks :
        task[t].pc = "reg_solve" =>
            LET s == RegState
                p == regulator.parameters
            IN  \A u \in SolverSetpoints(PreviousSimulatedOutdoorTemperature(s), p) :
                    Feasible(Solve(s, p, regulator.time_step,
                                   s.indoor_temperature,
                                   InitialMediumTemperature(s, p),
                                   task[t].horizon, Held(u, task[t].horizon)),
                             p, task[t].horizon)

C16_Witness ==
    \E t \in Tasks :
        /\ task[t].pc = "reg_ret"
        /\ task[t].status = Converged
        /\ task[t].entry.parameters.heater_thermal_power
               < DEFAULT_HEATER_THERMAL_POWER
        /\ \A k \in 1..(task[t].horizon + 1) :
               task[t].solution.indoor_temperatures[k]
                   < task[t].entry.parameters.lower_temperature_bound

(* C17: the heat flow of a return setpoint and a medium temperature is in
   [0, heater_thermal_power]: the one of the optimisation problem, the one
   recomputed from the solution, and the stored projected_thermal_power. *)
InPowerRange(heat, p) == 0 <= heat /\ heat <= p.heater_thermal_power

C17_HeatFlowSaturated ==
    \A t \in Tasks :
        Solved(t) =>
            LET sol == task[t].solution
                p == task[t].entry.parameters
            IN  \A k \in 1..task[t].horizon :
                    /\ InPowerRange(
                           HeatFromReturnSetpoint(sol.return_setpoints[k],
                                                  sol.medium_temperatures[k], p),
                           p)
                    /\ InPowerRange(sol.thermal_power[k], p)
                    /\ Stored(t) =>
                           InPowerRange(
                               RegState.projected_thermal_power.items[k].temperature,
                               p)

C17_Witness ==
    \E t \in Tasks :
        LET sol == task[t].solution
            p == task[t].entry.parameters
        IN  /\ task[t].pc = "reg_ret"
            /\ \E k \in 1..task[t].horizon :
                   /\ RawHeat(sol.return_setpoints[k],
                              sol.medium_temperatures[k], p)
                          > p.heater_thermal_power
                   /\ RegState.projected_thermal_power.items[k].temperature
                          = p.heater_thermal_power
            /\ \E k \in 1..task[t].horizon :
                   /\ RawHeat(sol.return_setpoints[k],
                              sol.medium_temperatures[k], p) < 0
                   /\ RegState.projected_thermal_power.items[k].temperature = 0

(* C18: with a non-zero slope, converting a simulated outdoor temperature
   between -40 and 20 degrees to a medium setpoint and back returns it, for
   every slope and intercept the regulator holds after an update of its
   parameters. *)
CurveRange == (-400)..200

C19_TrajectoriesOverwritten ==
    \A t \in Tasks :
        Stored(t) =>
            LET dt == task[t].entry.parameters.time_step
                sol == task[t].solution
            IN  /\ \A f \in 1..5 :
                       /\ ~Trajectories(RegState)[f].none
                       /\ Len(Trajectories(RegState)[f].items) = task[t].horizon
                       /\ \A i \in 1..task[t].horizon :
                              /\ Trajectories(RegState)[f].items[i].start_time
                                     = task[t].now + (i - 1) * dt
                              /\ Trajectories(RegState)[f].items[i].end_time
                                     = task[t].now + i * dt
                /\ \A i \in 1..task[t].horizon :
                       /\ RegState.projected_indoor_temperature.items[i].temperature
                              = sol.indoor_temperatures[i]
                       /\ RegState.projected_medium_temperature.items[i].temperature
                              = sol.medium_temperatures[i]
                       /\ RegState.projected_thermal_power.items[i].temperature
                              = sol.thermal_power[i]

C19_Witness ==
    \E t \in Tasks :
        /\ task[t].pc = "reg_ret"
        /\ HasTrajectory(task[t].entry.state)
        /\ task[t].horizon
               < Len(task[t].entry.state.simulated_outdoor_temperatures.items)
        /\ Len(StoredSimulated) = task[t].horizon

(* C20: the ramp reference passed to a solve is the step-0 simulated
   outdoor temperature of the most recent successful solve when there is
   one, and the actual outdoor temperature otherwise; with neither the call
   fails. *)
C20_RampReference ==
    \A t \in Tasks :
        /\ (task[t].reference # None /\ task[t].pc # "reg_ret") =>
               task[t].reference =
                   IF last_solve # None
                   THEN last_solve
                   ELSE task[t].entry.state.actual_outdoor_temperature
        /\ (/\ Entered(t)
            /\ last_solve = None
            /\ task[t].entry.state.actual_outdoor_temperature = None) =>
               task[t].pc = "reg_raise"

(***************************************************************************)
(* Properties of the controller's price handling (specification SpecCtl).  *)
(* A controller call invokes the regulator when its frame reaches          *)
(* "reg_check"; entry.state is the state the regulator holds then.         *)
(***************************************************************************)
Invoked(t) == task[t].pc = "reg_check" /\ task[t].kind \in {"hsc", "upo"}

(* C24: while price control is disabled the forward price series is empty
   and the price area and currency are forgotten, so a solve that runs with
   price control disabled sees no price data of an earlier enabled period. *)
C24_DisabledHasNoPrices ==
    ~controller.price_control_enabled =>
        /\ NoPrices(CtlState)
        /\ controller.price_area = NoneStr
        /\ controller.price_currency = NoneStr
        /\ \A t \in Tasks : InFlight(t) => NoPrices(task[t].entry.state)

(* C25: whenever the controller invokes async_regulate, the state the
   regulator holds has both the actual outdoor temperature and the indoor
   temperature. *)
C25_InvokedWithValidState ==
    \A t \in Tasks : Invoked(t) => ~MissingTemperature(task[t].entry.state)

(* C28: a call of the controller's update_parameters_from_options that
   raises leaves the price-control flag, the price area, the price
   currency, the price series and the regulator as they were. *)
C28_FailedUpdateNoEffect ==
    [][\A t \in Tasks :
          (task[t].pc = "idle" /\ task'[t].pc = "upo_raise") =>
              /\ controller' = controller
              /\ heap' = heap
              /\ regulator' = regulator]_vars

(* C30: while price control is enabled and the last price fetch left the
   series empty, a controller call that invokes the regulator has fetched
   prices on its way there. *)
C30_EmptyFetchRetried ==
    \A t \in Tasks :
        (/\ Invoked(t)
         /\ controller.price_control_enabled
         /\ fetch_left_empty) => task[t].fetched

(***************************************************************************)
(* Properties of the objective and the constraints of _solve               *)
(* (specification Spec).                                                   *)
(***************************************************************************)
PriceCount(t) == Len(task[t].entry.state.electricity_price)

(* C29: in every solve the effective horizon is at most the number of
   price points, so each step index used to read electricity_price is
   inside the list and no call ends with an index error. *)
C29_PriceIndexInRange ==
    \A t \in Tasks :
        /\ Entered(t) => ~Failed(t, "IndexError")
        /\ (Entered(t) /\ task[t].error = "none") =>
               /\ task[t].horizon <= PriceCount(t)
               /\ \A k \in 0..(task[t].horizon - 1) : k < PriceCount(t)
        /\ Solved(t) =>
               \A k \in 1..task[t].horizon :
                   task[t].objective.price[k] # IndexError

C29_Witness ==
    \E t \in Tasks :
        /\ Solved(t)
        /\ task[t].horizon = PriceCount(t)
        /\ task[t].horizon < task[t].entry.parameters.prediction_horizon
        /\ Len(task[t].objective.price) = task[t].horizon

(* The price index and the energy term as the specification states them:
   step k reads the price at round(k * time_step / interval) clamped to the
   list, and the term weighs the energy of one step of time_step seconds. *)
RoundedPriceIndex(k, time_step, count) ==
    Min(count - 1,
        Max(0, (2 * k * time_step + PRICE_INTERVAL) \div (2 * PRICE_INTERVAL)))

TimeScaledEnergyCost(heat_flow, price, time_step) ==
    Quot(heat_flow * price * time_step, 3600)

(* C22: for every step k of a solve, the price in the energy term of step
   k is the price point at index round(k * time_step / 900), clamped to the
   price list. *)
C22_PriceTimeAligned ==
    \A t \in Tasks :
        Solved(t) =>
            \A k \in 0..(task[t].horizon - 1) :
                task[t].objective.price[k + 1] =
                    task[t].entry.state.electricity_price[
                        RoundedPriceIndex(k, task[t].entry.parameters.time_step,
                                          PriceCount(t)) + 1].price

(* C23: for every step k of a solve, the energy term of the objective is
   energy_cost_penalty * heat_flow[k] / 1000 * price[k] * time_step / 3600,
   with price[k] the price the solve used for step k. *)
C23_EnergyCostScalesWithTimeStep ==
    \A t \in Tasks :
        Solved(t) =>
            \A k \in 1..task[t].horizon :
                LET p == task[t].entry.parameters
                    sol == task[t].solution
                    heat == HeatFromReturnSetpoint(sol.return_setpoints[k],
                                sol.medium_temperatures[k], p)
                IN  task[t].objective.energy_cost[k] =
                        p.energy_cost_penalty
                            * TimeScaledEnergyCost(heat,
                                  task[t].objective.price[k], p.time_step)

(* C21: the initial medium temperature of a solve is the measured
   medium_temperature of the state when there is one, and the heat curve at
   the actual outdoor temperature only when medium_temperature is null. *)
C21_MeasuredMediumUsed ==
    \A t \in Tasks :
        Solved(t) =>
            task[t].solution.medium_temperatures[1] =
                IF task[t].entry.state.medium_temperature # None
                THEN task[t].entry.state.medium_temperature
                ELSE InitialMediumTemperature(task[t].entry.state,
                                              task[t].entry.parameters)

(* C26: for a valid state and parameters with minimum return temperature
   at most the maximum and a ramp limit of at least 0, some return setpoint
   lies inside the box bounds and within the ramp limit of the reference of
   the solve (held over the horizon it satisfies every hard constraint). *)
C26_HardConstraintsSatisfiable ==
    \A t \in Tasks :
        (/\ task[t].pc = "reg_solve"
         /\ is_valid(RegState)
         /\ regulator.parameters.minimum_medium_return_temperature
                <= regulator.parameters.maximum_medium_return_temperature
         /\ regulator.parameters.outdoor_ramp_limit >= 0) =>
            \E u \in SetpointBounds(regulator.parameters) :
                RampConstraint(u, PreviousSimulatedOutdoorTemperature(RegState),
                               regulator.parameters)

(* The option keys of the configuration constants and the options flow,
   each with the MPCParameters field it configures. *)
ConfigKeyField ==
    [prediction_horizon |-> "prediction_horizon",
     time_step |-> "time_step",
     thermal_resistance |-> "thermal_resistance",
     thermal_capacitance |-> "thermal_capacitance",
     medium_to_building_thermal_resistance |-> "medium_to_room_resistance",
     medium_to_outdoor_thermal_resistance |->
         "medium_to_outdoor_thermal_resistance",
     medium_thermal_capacity |-> "medium_thermal_capacity",
     heater_thermal_power |-> "heater_thermal_power",
     heater_transfer_coefficient |-> "heater_transfer_coefficient",
     heat_curve_slope |-> "heat_curve_slope",
     heat_curve_intercept |-> "heat_curve_intercept",
     temperature_deviation_penalty |-> "temperature_deviation_penalty",
     comfort_band_violation_penalty |-> "comfort_band_violation_penalty",
     energy_cost_penalty |-> "energy_cost_penalty",
     simulated_outdoor_move_penalty |-> "simulated_outdoor_move_penalty"]

(* C27: when update_parameters_from_options returns, every value given
   under an option key of the configuration constants is the value of the
   MPCParameters field that key configures. *)
C27_ConfigKeysApplied ==
    \A t \in Tasks :
        task[t].pc = "par_ret" =>
            \A key \in DOMAIN task[t].options \cap DOMAIN ConfigKeyField :
                regulator.parameters[ConfigKeyField[key]] = task[t].options[key]

====
